---- MODULE Spec2Model ----
(***************************************************************************)
(* Model of the HMS front-end utility layer: AjaxHandler.request and       *)
(* AjaxHandler.handleError, LoadingManager and StateManager.               *)
(***************************************************************************)
EXTENDS Integers, Sequences, FiniteSets, TLC

(* ------------------------------ bounds -------------------------------- *)
MaxCalls == 2
MaxRetries == 2
MaxShows == 3
MaxSubs == 2
MaxFields == 3
MaxRuns == 2
MaxValueLen == 2
MaxClicks == 2
MaxDepth == 2
MaxDeletes == 2

(* --------------------------- JavaScript values ------------------------ *)
Undefined == [type |-> "undefined"]
Null == [type |-> "null"]
Str(s) == [type |-> "string", str |-> s]
Num(n) == [type |-> "number", num |-> n]
Bool(b) == [type |-> "boolean", val |-> b]
\* a string held as its sequence of characters
Text(chars) == [type |-> "text", chars |-> chars]
\* an object literal; a field the object lacks reads as Undefined
Obj(f) == [type |-> "object", fields |-> f]

\* JavaScript truthiness of a value
Truthy(v) ==
    CASE v.type = "undefined" -> FALSE
      [] v.type = "null" -> FALSE
      [] v.type = "string" -> v.str # ""
      [] v.type = "number" -> v.num # 0
      [] v.type = "boolean" -> v.val
      [] v.type = "text" -> v.chars # <<>>
      [] OTHER -> TRUE

\* a || b
OrElse(a, b) == IF Truthy(a) THEN a ELSE b

\* Property read v.f : a read on null or undefined throws a TypeError
ReadThrows(v) == v.type \in {"undefined", "null"}
Field(v, f) ==
    IF v.type = "object" THEN v.fields[f] ELSE Undefined

(* ------------------------------ JSON.parse ---------------------------- *)
NotJSON == "<html>Bad Gateway</html>"
TextEmptyObj == "{}"
TextDetail == "{\"detail\":\"Invalid id\"}"
TextError == "{\"error\":\"Quota exceeded\"}"
TextBoth == "{\"detail\":\"Invalid id\",\"error\":\"Quota exceeded\"}"
TextEmptyDetail == "{\"detail\":\"\",\"error\":\"Quota exceeded\"}"
TextString == "\"down for maintenance\""
TextNull == "null"
Texts == {"", NotJSON, TextEmptyObj, TextDetail, TextError, TextBoth,
          TextEmptyDetail, TextString, TextNull}

\* JSON.parse(text): ok = FALSE stands for the SyntaxError it throws
JSONparse(text) ==
    CASE text = TextEmptyObj -> [ok |-> TRUE, value |-> Obj([detail |-> Undefined, error |-> Undefined])]
      [] text = TextDetail ->
            [ok |-> TRUE, value |-> Obj([detail |-> Str("Invalid id"),
                                         error |-> Undefined])]
      [] text = TextError ->
            [ok |-> TRUE, value |-> Obj([detail |-> Undefined,
                                         error |-> Str("Quota exceeded")])]
      [] text = TextBoth ->
            [ok |-> TRUE, value |-> Obj([detail |-> Str("Invalid id"),
                                         error |-> Str("Quota exceeded")])]
      [] text = TextEmptyDetail ->
            [ok |-> TRUE, value |-> Obj([detail |-> Str(""),
                                         error |-> Str("Quota exceeded")])]
      [] text = TextString ->
            [ok |-> TRUE, value |-> Str("down for maintenance")]
      [] text = TextNull -> [ok |-> TRUE, value |-> Null]
      [] OTHER -> [ok |-> FALSE, value |-> Undefined]

(* ------------------------- AjaxHandler.handleError -------------------- *)
GenericMessage == Str("An unexpected error occurred")

\* Object.values(response).join(', ') for the objects of JSONparse
JoinValues(v) ==
    LET d == v.fields["detail"]
        e == v.fields["error"] IN
    IF d = Undefined /\ e = Undefined THEN Str("")
    ELSE IF e = Undefined THEN d
    ELSE IF d = Undefined THEN e
    ELSE Str(d.str \o ", " \o e.str)

\* the try block nested in the catch clause; the message it leaves
InnerParseMessage(error, message) ==
    IF ~Truthy(error.responseText) THEN message
    ELSE LET p == JSONparse(error.responseText.str) IN
         IF ~p.ok \/ ReadThrows(p.value)
         THEN OrElse(error.statusText, message)
         ELSE LET response == p.value IN
              IF Truthy(Field(response, "detail")) THEN Field(response, "detail")
              ELSE IF Truthy(Field(response, "error")) THEN Field(response, "error")
              ELSE IF response.type = "string" THEN response
              ELSE IF response.type = "object"
                   THEN OrElse(JoinValues(response), message)
              ELSE message

\* the catch clause of the outer try
CatchMessage(error) ==
    LET inner == InnerParseMessage(error, GenericMessage) IN
    OrElse(error.statusText, inner)

\* the message before the status switch
BodyMessage(error) ==
    IF Truthy(error.responseJSON) /\ Truthy(Field(error.responseJSON, "detail"))
    THEN Field(error.responseJSON, "detail")
    ELSE IF Truthy(error.responseText)
    THEN LET p == JSONparse(error.responseText.str) IN
         IF ~p.ok \/ ReadThrows(p.value)
         THEN CatchMessage(error)
         ELSE IF Truthy(Field(p.value, "detail"))
              THEN Field(p.value, "detail")
              ELSE GenericMessage
    ELSE IF Truthy(error.statusText) THEN error.statusText
    ELSE GenericMessage

\* the switch on error.status
StatusMessageFallThrough(status, message) ==
    CASE status = Num(401) -> Str("Unauthorized access. Please log in.")
      [] status = Num(403) ->
            Str("Access forbidden. You do not have permission to perform this action.")
      [] status = Num(404) -> Str("Internal server error. Please try again later.")
      [] status = Num(500) -> Str("Internal server error. Please try again later.")
      [] OTHER -> message
StatusMessage(status, message) ==
    CASE status = Num(401) -> Str("Unauthorized access. Please log in.")
      [] status = Num(403) ->
            Str("Access forbidden. You do not have permission to perform this action.")
      [] status = Num(404) -> Str("Resource not found.")
      [] status = Num(500) -> Str("Internal server error. Please try again later.")
      [] OTHER -> message

handleError(error) ==
    [success |-> FALSE,
     error |-> StatusMessage(error.status, BodyMessage(error)),
     status |-> error.status]

(* ------------------------------ inputs -------------------------------- *)
Calls == 1..MaxCalls
RetryOptions == (-1)..MaxRetries

\* an error object as handleError reads it
Err(status, statusText, responseText, responseJSON) ==
    [status |-> status, statusText |-> statusText,
     responseText |-> responseText, responseJSON |-> responseJSON]

\* a TypeError thrown inside the try block has none of the jqXHR fields
ThrownError == Err(Undefined, Undefined, Undefined, Undefined)
NetworkError == Err(Num(0), Str("error"), Undefined, Undefined)
\* the failures the transport delivers to request
AjaxErrors ==
    {NetworkError, ThrownError,
     Err(Num(404), Str("Not Found"), Str(NotJSON), Undefined),
     Err(Num(400), Str("Bad Request"), Str(TextDetail), JSONparse(TextDetail).value),
     Err(Num(500), Str("Internal Server Error"), Undefined, Undefined)}

\* decoded payloads of successful responses
Payloads == {Obj([detail |-> Undefined, error |-> Undefined]),
             Obj([detail |-> Str("Invalid id"), error |-> Undefined]),
             Undefined}

Elements == {"#save-btn", "#patient-form"}

Keys == {"user", "theme"}
Callbacks == {"cb1", "cb2"}
Values == {Num(1), Num(2)}
Targets == {"page"} \cup Elements
Runs == 1..MaxRuns
Clicks == 1..MaxClicks
Deletes == 1..MaxDeletes
\* the elements on the page that data-target selectors can match
InitialDom == {"#row-1", "#row-2"}

(* ------------------------------- state -------------------------------- *)
VARIABLES
    overlay,    \* number of elements with id 'loading-overlay' in the document
    elem,       \* per element: has class 'loading', disabled
    pc,         \* per request call: idle, inflight, waiting, done
    retries,    \* per call: the retries option
    attempt,    \* per call: the local variable attempt
    issued,     \* per call: number of $.ajax calls issued so far
    settled,    \* per call: what the last attempt delivered
    result,     \* per call: the value the promise resolved to
    lastOp,     \* per target: last LoadingManager call ("none", "show", "hide")
    shows,      \* per target: length of the run of shows that ended last
    errIn,      \* handleError: the error it was last called with
    errOut,     \* handleError: the record it returned
    state,      \* StateManager.state: per key its value, or NoValue
    listeners,  \* StateManager.listeners: per key its callback list
    keyOrder,   \* the own keys of StateManager.listeners, in insertion order
    calls,      \* the callback invocations of the last StateManager call
    smOp,       \* the last StateManager call
    subs,       \* per key and callback: subscribes since its last unsubscribe
    stack,      \* StateManager.publish: the forEach loops in progress
    delivered,  \* per callback: the last value passed to it in the current call
    topOp,      \* the StateManager call made by page code, and whether it returned
    formIn,     \* serializeForm: the form entries it was last called with
    formOut,    \* serializeForm: the object it returned
    bound,      \* attachSubmit: the form the handler is bound to, or NoValue
    btnText,    \* the submit button's textContent
    btnDisabled, \* the submit button's disabled property
    formValues, \* the form's fields: "filled" or "reset"
    spc,        \* per run of the submit handler: idle, awaiting, done
    originalText, \* per run: the local constant originalText
    notes,      \* per run: the notifications it has shown
    lastFinished, \* the run of the submit handler that finished last, or 0
    jar,        \* the browser's cookie store, in document.cookie order
    cookieOp,   \* the last CookieManager call
    hdrs,       \* per request call: the local constant defaultHeaders
    sent,       \* per request call: the header sets its attempts carried
    delay,      \* per request call: the retryDelay option
    waits,      \* per request call: the delays it has waited, in order
    headersOpt, \* per request call: the headers option it was given
    cookiesAt,  \* per request call: the cookie store when it started
    lpc,        \* per header click: idle, pending, settled
    lkind,      \* per header click: login or signup
    navs,       \* per header click: the navigations its handlers started
    location,   \* window.location.href
    dpc,        \* per delete click: idle, awaiting, done
    dIn,        \* per delete click: data-url, data-target, the confirm answer
    deleteCalls, \* per delete click: the ajaxHandler.delete calls it made
    dRes,       \* per delete click: what ajaxHandler.delete returned
    dNote,      \* per delete click: the notifications it showed
    removed,    \* per delete click: the elements it removed
    dom         \* the elements data-target selectors can match, still on the page

ajaxVars == <<pc, retries, attempt, issued, settled, result>>
loadVars == <<overlay, elem>>
histVars == <<lastOp, shows>>
errVars == <<errIn, errOut>>
smVars == <<state, listeners, keyOrder, calls, smOp, subs>>
reVars == <<stack, delivered, topOp>>
serVars == <<formIn, formOut>>
submitVars == <<bound, btnText, btnDisabled, formValues, spc, originalText,
                notes, lastFinished>>
cookieVars == <<jar, cookieOp>>
optVars == <<hdrs, sent, delay, waits, headersOpt, cookiesAt>>
landVars == <<lpc, lkind, navs, location>>
delVars == <<dpc, dIn, deleteCalls, dRes, dNote, removed, dom>>
vars == <<overlay, elem, pc, retries, attempt, issued, settled, result,
          lastOp, shows, errIn, errOut,
          state, listeners, keyOrder, calls, smOp, subs,
          stack, delivered, topOp, formIn, formOut,
          bound, btnText, btnDisabled, formValues, spc, originalText,
          notes, lastFinished, jar, cookieOp, hdrs, sent, delay, waits,
          headersOpt, cookiesAt,
          lpc, lkind, navs, location,
          dpc, dIn, deleteCalls, dRes, dNote, removed, dom>>

\* what the actions of one component leave unchanged
formsAndHeader == <<serVars, submitVars, landVars, delVars>>
outsideRequest == <<histVars, errVars, smVars, reVars, cookieVars, formsAndHeader>>
outsideLoading == <<ajaxVars, optVars, errVars, smVars, reVars, cookieVars,
                    formsAndHeader>>
outsideError == <<loadVars, ajaxVars, optVars, histVars, smVars, reVars,
                  cookieVars, formsAndHeader>>
outsideState == <<loadVars, ajaxVars, optVars, histVars, errVars, reVars,
                  cookieVars, formsAndHeader>>
outsideForms == <<loadVars, ajaxVars, optVars, histVars, errVars, smVars, reVars,
                  cookieVars, landVars, delVars>>
outsideCookies == <<loadVars, ajaxVars, optVars, histVars, errVars, smVars,
                    reVars, formsAndHeader>>
outsideHeader == <<loadVars, ajaxVars, optVars, histVars, errVars, smVars,
                   reVars, cookieVars, serVars, submitVars, delVars>>
outsideDelete == <<loadVars, ajaxVars, optVars, histVars, errVars, smVars,
                   reVars, cookieVars, serVars, submitVars, landVars>>
outsidePublish == <<loadVars, ajaxVars, optVars, histVars, errVars, cookieVars,
                    formsAndHeader>>

NoValue == [type |-> "none"]

Init ==
    /\ overlay = 0
    /\ elem = [e \in Elements |-> [loading |-> FALSE, disabled |-> FALSE]]
    /\ pc = [c \in Calls |-> "idle"]
    /\ retries = [c \in Calls |-> 0]
    /\ attempt = [c \in Calls |-> 0]
    /\ issued = [c \in Calls |-> 0]
    /\ settled = [c \in Calls |-> NoValue]
    /\ result = [c \in Calls |-> NoValue]
    /\ lastOp = [t \in Targets |-> "none"]
    /\ shows = [t \in Targets |-> 0]
    /\ errIn = NoValue
    /\ errOut = NoValue
    /\ state = [k \in Keys |-> NoValue]
    /\ listeners = [k \in Keys |-> <<>>]
    /\ keyOrder = <<>>
    /\ calls = <<>>
    /\ smOp = [op |-> "none"]
    /\ subs = [k \in Keys |-> [cb \in Callbacks |-> 0]]
    /\ stack = <<>>
    /\ delivered = [cb \in Callbacks |-> NoValue]
    /\ topOp = [op |-> "none"]
    /\ formIn = NoValue
    /\ formOut = NoValue
    /\ bound = NoValue
    /\ btnText = Str("Save")
    /\ btnDisabled = FALSE
    /\ formValues = "filled"
    /\ spc = [r \in Runs |-> "idle"]
    /\ originalText = [r \in Runs |-> NoValue]
    /\ notes = [r \in Runs |-> <<>>]
    /\ lastFinished = 0
    /\ jar = <<>>
    /\ cookieOp = [op |-> "none"]
    /\ hdrs = [c \in Calls |-> NoValue]
    /\ sent = [c \in Calls |-> {}]
    /\ delay = [c \in Calls |-> 0]
    /\ waits = [c \in Calls |-> <<>>]
    /\ headersOpt = [c \in Calls |-> {}]
    /\ cookiesAt = [c \in Calls |-> <<>>]
    /\ lpc = [k \in Clicks |-> "idle"]
    /\ lkind = [k \in Clicks |-> "none"]
    /\ navs = [k \in Clicks |-> <<>>]
    /\ location = "/"
    /\ dpc = [d \in Deletes |-> "idle"]
    /\ dIn = [d \in Deletes |-> NoValue]
    /\ deleteCalls = [d \in Deletes |-> 0]
    /\ dRes = [d \in Deletes |-> NoValue]
    /\ dNote = [d \in Deletes |-> <<>>]
    /\ removed = [d \in Deletes |-> {}]
    /\ dom = InitialDom

(* ----------------------- handleError as a function -------------------- *)
\* HTTP error statuses; status 0 is a transport failure and carries no body
Statuses == {Num(n) : n \in {400, 401, 403, 404, 500, 503}}
StatusTexts == {Undefined, Str(""), Str("Bad Request")}
ResponseTexts == {Undefined} \cup {Str(t) : t \in Texts}
\* responseJSON is the decoded responseText, where the transport set it
ResponseJSONs(rt) ==
    {Undefined} \cup
    (IF Truthy(rt) /\ JSONparse(rt.str).ok THEN {JSONparse(rt.str).value} ELSE {})
ErrorInputs ==
    {ThrownError} \cup
    {Err(Num(0), tx, rt, Undefined) : tx \in StatusTexts, rt \in {Undefined, Str("")}} \cup
    UNION {{Err(st, tx, rt, rj) : st \in Statuses, tx \in StatusTexts,
                                  rj \in ResponseJSONs(rt)} : rt \in ResponseTexts}

HandleErrorCall(error) ==
    /\ errIn = NoValue
    /\ errIn' = error
    /\ errOut' = handleError(error)
    /\ UNCHANGED outsideError

(* ---------------------------- LoadingManager -------------------------- *)
\* showLoading('page'): an overlay is appended only if getElementById finds none
\* (the spinner inside it and the keyframes style element are not indicators
\* and are not counted)
ShowPageMissingCheck(n) == n + 1
ShowPage(n) == IF n = 0 THEN n + 1 ELSE n

\* hideLoading('page'): getElementById returns the first overlay; it is removed
HidePage(n) == IF n > 0 THEN n - 1 ELSE n

\* showLoading(element)
ShowElement(e) == [loading |-> TRUE, disabled |-> TRUE]

\* hideLoading(element)
HideElementKeepsDisabled(e) == [loading |-> FALSE, disabled |-> e.disabled]
HideElement(e) == [loading |-> FALSE, disabled |-> FALSE]

showLoading(target) ==
    IF target = "page"
    THEN /\ overlay' = ShowPage(overlay)
         /\ UNCHANGED elem
    ELSE /\ elem' = [elem EXCEPT ![target] = ShowElement(elem[target])]
         /\ UNCHANGED overlay

hideLoading(target) ==
    IF target = "page"
    THEN /\ overlay' = HidePage(overlay)
         /\ UNCHANGED elem
    ELSE /\ elem' = [elem EXCEPT ![target] = HideElement(elem[target])]
         /\ UNCHANGED overlay

\* a call of LoadingManager.showLoading(target) by page code
ShowLoadingCall(target) ==
    /\ lastOp[target] = "show" => shows[target] < MaxShows
    /\ showLoading(target)
    /\ lastOp' = [lastOp EXCEPT ![target] = "show"]
    /\ shows' = [shows EXCEPT ![target] =
                    IF lastOp[target] = "show" THEN shows[target] + 1 ELSE 1]
    /\ UNCHANGED outsideLoading

\* a call of LoadingManager.hideLoading(target) by page code
HideLoadingCall(target) ==
    /\ hideLoading(target)
    /\ lastOp' = [lastOp EXCEPT ![target] = "hide"]
    /\ shows' = [shows EXCEPT ![target] =
                    IF lastOp[target] = "show" THEN shows[target] ELSE 0]
    /\ UNCHANGED outsideLoading

\* the same calls on the page overlay, interleaved with requests
PageShow ==
    /\ showLoading("page")
    /\ UNCHANGED <<ajaxVars, optVars, outsideRequest>>

PageHide ==
    /\ hideLoading("page")
    /\ UNCHANGED <<ajaxVars, optVars, outsideRequest>>

(* ------------------------------ CookieManager ------------------------- *)
\* Strings are sequences of characters; a cookie name and an attribute such
\* as "path=/" stand for one character each, as no operation looks inside.
AuthTokenKey == <<"hms_auth_token">>
CsrfKey == <<"csrftoken">>
CookieNames == {AuthTokenKey, CsrfKey}
ValueChars == {"t", ";", "%"}
CookieValues == UNION {[1..n -> ValueChars] : n \in 0..MaxValueLen}


\* index of the first ch in str, or 0
IndexOf(str, ch) ==
    IF \E i \in DOMAIN str : str[i] = ch
    THEN CHOOSE i \in DOMAIN str : str[i] = ch /\ \A j \in 1..(i - 1) : str[j] # ch
    ELSE 0

\* str.split(ch)
RECURSIVE Split(_, _)
Split(str, ch) ==
    LET i == IndexOf(str, ch) IN
    IF i = 0 THEN <<str>>
    ELSE <<SubSeq(str, 1, i - 1)>> \o Split(SubSeq(str, i + 1, Len(str)), ch)

\* while (c.charAt(0) === ' ') c = c.substring(1, c.length)
RECURSIVE StripLeading(_)
StripLeading(str) ==
    IF str # <<>> /\ Head(str) = " " THEN StripLeading(Tail(str)) ELSE str

RECURSIVE StripTrailing(_)
StripTrailing(str) ==
    IF str # <<>> /\ str[Len(str)] = " "
    THEN StripTrailing(SubSeq(str, 1, Len(str) - 1)) ELSE str

Trim(str) == StripTrailing(StripLeading(str))

\* the getter of document.cookie: "name=value" pairs joined by "; "
RECURSIVE CookieString(_)
CookieString(cookies) ==
    IF cookies = <<>> THEN <<>>
    ELSE Head(cookies).name \o <<"=">> \o Head(cookies).value
         \o (IF Len(cookies) > 1 THEN <<";", " ">> ELSE <<>>)
         \o CookieString(Tail(cookies))

\* the setter of document.cookie: the text before the first ';' is the
\* name=value pair, the rest are attributes; an expiry in the past removes
\* the cookie, otherwise it is stored, replacing one of the same name
AssignCookie(cookies, str) ==
    LET segs == Split(str, ";")
        pair == Trim(segs[1])
        eq == IndexOf(pair, "=")
        name == IF eq = 0 THEN <<>> ELSE Trim(SubSeq(pair, 1, eq - 1))
        value == IF eq = 0 THEN pair ELSE Trim(SubSeq(pair, eq + 1, Len(pair)))
        expired == \E i \in 2..Len(segs) : Trim(segs[i]) = <<"expires=PAST">>
        others == SelectSeq(cookies, LAMBDA c : c.name # name)
    IN  IF expired THEN others
        ELSE IF \E i \in DOMAIN cookies : cookies[i].name = name
        THEN [i \in DOMAIN cookies |->
                IF cookies[i].name = name
                THEN [name |-> name, value |-> value] ELSE cookies[i]]
        ELSE Append(cookies, [name |-> name, value |-> value])

\* the string setCookie assigns to document.cookie
SetCookieString(name, value, days) ==
    LET expires == IF days # 0
                   THEN <<";", " ", IF days > 0 THEN "expires=FUTURE"
                                                ELSE "expires=PAST">>
                   ELSE <<>>
    IN  name \o <<"=">> \o value \o expires \o <<";", " ", "path=/">>

\* the string deleteCookie assigns to document.cookie
DeleteCookieString(name) ==
    name \o <<"=", ";", " ", "path=/", ";", " ", "expires=PAST", ";">>

\* the loop of getCookie over the pieces of document.cookie
RECURSIVE FindCookie(_, _)
FindCookie(ca, nameEQ) ==
    IF ca = <<>> THEN Null
    ELSE LET c == StripLeading(Head(ca)) IN
         IF Len(nameEQ) <= Len(c) /\ SubSeq(c, 1, Len(nameEQ)) = nameEQ
         THEN Text(SubSeq(c, Len(nameEQ) + 1, Len(c)))
         ELSE FindCookie(Tail(ca), nameEQ)

getCookie(name) == FindCookie(Split(CookieString(jar), ";"), name \o <<"=">>)

checkCookie(name) == getCookie(name) # Null

setCookie(name, value, days) ==
    /\ jar' = AssignCookie(jar, SetCookieString(name, value, days))
    /\ cookieOp' = [op |-> "set", name |-> name, value |-> value, days |-> days]
    /\ UNCHANGED outsideCookies

deleteCookie(name) ==
    /\ jar' = AssignCookie(jar, DeleteCookieString(name))
    /\ cookieOp' = [op |-> "delete", name |-> name]
    /\ UNCHANGED outsideCookies

(* -------------------------- AjaxHandler.request ----------------------- *)
\* while (attempt <= retries)
LoopCondition(a, r) == a <= r

\* if (attempt > retries)
RetriesExhaustedOffByOne(a, r) == a >= r
RetriesExhausted(a, r) == a > r

\* return { success: true, data: response }
SuccessRecordNoData(response) == [success |-> TRUE, data |-> Undefined]
SuccessRecord(response) == [success |-> TRUE, data |-> response]

\* header objects are sets of name/value pairs with distinct names
ConfigHeaders ==
    {[name |-> "Content-Type", value |-> Str("application/json")],
     [name |-> "Accept", value |-> Str("application/json")]}
\* the headers option callers may pass; the default is {}
HeaderOptions ==
    {{}, {[name |-> "Accept", value |-> Str("text/plain")]},
     {[name |-> "Authorization", value |-> Str("Basic x")]}}
DefaultRetryDelay == 1000

\* { ...a, ...b }
Merge(a, b) == {p \in a : ~ \E q \in b : q.name = p.name} \cup b
SetHeader(headers, name, value) ==
    Merge(headers, {[name |-> name, value |-> value]})

AuthHeadersWhenPresent(headers, token) ==
    IF token # Null
    THEN SetHeader(headers, "Authorization", Text(<<"Bearer ">> \o token.chars))
    ELSE headers
\* if (token) defaultHeaders['Authorization'] = `Bearer ${token}`
AuthHeaders(headers, token) ==
    IF Truthy(token)
    THEN SetHeader(headers, "Authorization", Text(<<"Bearer ">> \o token.chars))
    ELSE headers

\* if (csrfToken) defaultHeaders['X-CSRFToken'] = csrfToken
CsrfHeaders(headers, csrfToken) ==
    IF Truthy(csrfToken)
    THEN SetHeader(headers, "X-CSRFToken", csrfToken)
    ELSE headers

\* defaultHeaders as request builds it before the loop
BuildHeaders(h) ==
    CsrfHeaders(AuthHeaders(Merge(ConfigHeaders, h), getCookie(AuthTokenKey)),
                getCookie(CsrfKey))

RetryWaitBackoff(retryDelay, a) == retryDelay * a
\* the timeout of the timer set after failed attempt number a
RetryWait(retryDelay, a) == retryDelay

\* request(...) up to its first suspension: the overlay is shown, the loop is
\* entered and the first $.ajax is issued; if the loop body never runs the
\* function falls off its end and the promise resolves to undefined
Request(c, r, d, h) ==
    /\ pc[c] = "idle"
    /\ c > 1 => pc[c - 1] # "idle"
    /\ showLoading("page")
    /\ retries' = [retries EXCEPT ![c] = r]
    /\ delay' = [delay EXCEPT ![c] = d]
    /\ headersOpt' = [headersOpt EXCEPT ![c] = h]
    /\ cookiesAt' = [cookiesAt EXCEPT ![c] = jar]
    /\ hdrs' = [hdrs EXCEPT ![c] = BuildHeaders(h)]
    /\ attempt' = [attempt EXCEPT ![c] = 0]
    /\ IF LoopCondition(0, r)
       THEN /\ pc' = [pc EXCEPT ![c] = "inflight"]
            /\ issued' = [issued EXCEPT ![c] = 1]
            /\ sent' = [sent EXCEPT ![c] = {BuildHeaders(h)}]
            /\ UNCHANGED result
       ELSE /\ pc' = [pc EXCEPT ![c] = "done"]
            /\ result' = [result EXCEPT ![c] = Undefined]
            /\ UNCHANGED <<issued, sent>>
    /\ UNCHANGED <<settled, waits, outsideRequest>>

\* await $.ajax(...) resolves with the decoded payload
AjaxResolve(c, response) ==
    /\ pc[c] = "inflight"
    /\ hideLoading("page")
    /\ result' = [result EXCEPT ![c] = SuccessRecord(response)]
    /\ settled' = [settled EXCEPT ![c] = [ok |-> TRUE, value |-> response]]
    /\ pc' = [pc EXCEPT ![c] = "done"]
    /\ UNCHANGED <<retries, attempt, issued, optVars, outsideRequest>>

\* the attempt throws: the catch clause
AjaxReject(c, error) ==
    /\ pc[c] = "inflight"
    /\ attempt' = [attempt EXCEPT ![c] = attempt[c] + 1]
    /\ IF RetriesExhausted(attempt[c] + 1, retries[c])
       THEN /\ hideLoading("page")
            /\ result' = [result EXCEPT ![c] = handleError(error)]
            /\ settled' = [settled EXCEPT ![c] = [ok |-> FALSE, value |-> error]]
            /\ pc' = [pc EXCEPT ![c] = "done"]
            /\ UNCHANGED waits
       ELSE /\ pc' = [pc EXCEPT ![c] = "waiting"]
            /\ waits' = [waits EXCEPT ![c] =
                             Append(waits[c], RetryWait(delay[c], attempt[c] + 1))]
            /\ UNCHANGED <<loadVars, result, settled>>
    /\ UNCHANGED <<retries, issued, hdrs, sent, delay, headersOpt, cookiesAt,
                   outsideRequest>>

\* the retry timer fires: the loop condition is evaluated again
RetryTimer(c) ==
    /\ pc[c] = "waiting"
    /\ IF LoopCondition(attempt[c], retries[c])
       THEN /\ pc' = [pc EXCEPT ![c] = "inflight"]
            /\ issued' = [issued EXCEPT ![c] = issued[c] + 1]
            /\ sent' = [sent EXCEPT ![c] = sent[c] \cup {hdrs[c]}]
            /\ UNCHANGED result
       ELSE /\ pc' = [pc EXCEPT ![c] = "done"]
            /\ result' = [result EXCEPT ![c] = Undefined]
            /\ UNCHANGED <<issued, sent>>
    /\ UNCHANGED <<loadVars, retries, attempt, settled, hdrs, delay, waits,
                   headersOpt, cookiesAt, outsideRequest>>

RequestStep ==
    \/ \E c \in Calls, r \in RetryOptions :
          Request(c, r, DefaultRetryDelay, {})
    \/ \E c \in Calls, response \in Payloads : AjaxResolve(c, response)
    \/ \E c \in Calls, error \in AjaxErrors : AjaxReject(c, error)
    \/ \E c \in Calls : RetryTimer(c)

(* ------------------------------ StateManager -------------------------- *)
\* this.listeners[key] is truthy: key is an own property of listeners
Registered(key) == \E i \in DOMAIN keyOrder : keyOrder[i] = key

\* publish(key, value): the invocations callback(value), in list order
publishAllKeys(key, value) ==
    IF Registered(key)
    THEN [i \in DOMAIN listeners[key] |-> [cb |-> listeners[key][i], arg |-> value]]
         \o (LET others == SelectSeq(keyOrder, LAMBDA k : k # key) IN
             IF others = <<>> THEN <<>>
             ELSE [i \in DOMAIN listeners[others[1]] |->
                     [cb |-> listeners[others[1]][i], arg |-> value]])
    ELSE <<>>
publish(key, value) ==
    IF Registered(key)
    THEN [i \in DOMAIN listeners[key] |-> [cb |-> listeners[key][i], arg |-> value]]
    ELSE <<>>

\* get(key)
get(key) == IF state[key] = NoValue THEN Undefined ELSE state[key]

\* listeners[key].filter(cb => cb !== callback)
RemoveFirst(list, callback) ==
    IF \E i \in DOMAIN list : list[i] = callback
    THEN LET first == CHOOSE i \in DOMAIN list :
                        /\ list[i] = callback
                        /\ \A j \in 1..(i - 1) : list[j] # callback
         IN SubSeq(list, 1, first - 1) \o SubSeq(list, first + 1, Len(list))
    ELSE list
Filter(list, callback) == SelectSeq(list, LAMBDA cb : cb # callback)

\* the keys clear() iterates: for (const key in this.listeners)
ClearKeysHoldingValue == SelectSeq(keyOrder, LAMBDA k : state[k] # NoValue)
ClearKeys == keyOrder

RECURSIVE PublishAll(_, _)
PublishAll(keys, value) ==
    IF keys = <<>> THEN <<>>
    ELSE publish(Head(keys), value) \o PublishAll(Tail(keys), value)

store(key, value) ==
    /\ state' = [state EXCEPT ![key] = value]
    /\ calls' = publish(key, value)
    /\ smOp' = [op |-> "store", key |-> key, value |-> value]
    /\ UNCHANGED <<listeners, keyOrder, subs, outsideState>>

remove(key) ==
    /\ state' = [state EXCEPT ![key] = NoValue]
    /\ calls' = publish(key, Undefined)
    /\ smOp' = [op |-> "remove", key |-> key, held |-> state[key] # NoValue]
    /\ UNCHANGED <<listeners, keyOrder, subs, outsideState>>

clear ==
    /\ state' = [k \in Keys |-> NoValue]
    /\ calls' = PublishAll(ClearKeys, Undefined)
    /\ smOp' = [op |-> "clear", held |-> {k \in Keys : state[k] # NoValue}]
    /\ UNCHANGED <<listeners, keyOrder, subs, outsideState>>

subscribe(key, callback) ==
    /\ Len(listeners[key]) < MaxSubs
    /\ keyOrder' = IF Registered(key) THEN keyOrder ELSE Append(keyOrder, key)
    /\ listeners' = [listeners EXCEPT ![key] = Append(listeners[key], callback)]
    /\ subs' = [subs EXCEPT ![key][callback] = subs[key][callback] + 1]
    /\ calls' = <<>>
    /\ smOp' = [op |-> "subscribe", key |-> key, cb |-> callback]
    /\ UNCHANGED <<state, outsideState>>

unsubscribe(key, callback) ==
    /\ IF Registered(key)
       THEN listeners' = [listeners EXCEPT ![key] = Filter(listeners[key], callback)]
       ELSE UNCHANGED listeners
    /\ subs' = [subs EXCEPT ![key][callback] = 0]
    /\ calls' = <<>>
    /\ smOp' = [op |-> "unsubscribe", key |-> key, cb |-> callback]
    /\ UNCHANGED <<state, keyOrder, outsideState>>

(* ------------------ StateManager with re-entrant callbacks ------------ *)
\* What a callback does with the StateManager, on the key it is notified
\* for, before it returns.
Reactions ==
    {[do |-> "nothing"], [do |-> "remove"]}
    \cup {[do |-> "store", value |-> v] : v \in Values}
    \cup {[do |-> "subscribe", cb |-> cb] : cb \in Callbacks}
    \cup {[do |-> "unsubscribe", cb |-> cb] : cb \in Callbacks}

\* publish(key, value) entered: forEach fixes the array and its length; a
\* later push lands beyond that length and unsubscribe installs a new array,
\* so the loop visits exactly the callbacks listed at this moment
Frame(key, value) ==
    [key |-> key, value |-> value,
     list |-> IF Registered(key) THEN listeners[key] ELSE <<>>, idx |-> 1]

\* store(key, value) / remove(key) called by page code
TopStore(key, value) ==
    /\ stack = <<>>
    /\ state' = [state EXCEPT ![key] = value]
    /\ stack' = <<Frame(key, value)>>
    /\ delivered' = [cb \in Callbacks |-> NoValue]
    /\ topOp' = [op |-> "store", key |-> key, returned |-> FALSE]
    /\ UNCHANGED <<listeners, keyOrder, calls, smOp, subs, outsidePublish>>

TopRemove(key) ==
    /\ stack = <<>>
    /\ state' = [state EXCEPT ![key] = NoValue]
    /\ stack' = <<Frame(key, Undefined)>>
    /\ delivered' = [cb \in Callbacks |-> NoValue]
    /\ topOp' = [op |-> "remove", key |-> key, returned |-> FALSE]
    /\ UNCHANGED <<listeners, keyOrder, calls, smOp, subs, outsidePublish>>

\* one iteration of forEach: callback(value) runs; the StateManager call it
\* makes takes effect at once, and a nested store or remove runs its own
\* publish to the end before this loop goes on
Deliver(reaction) ==
    /\ stack # <<>>
    /\ LET top == stack[Len(stack)]
           key == top.key
           advanced == [stack EXCEPT ![Len(stack)].idx = top.idx + 1]
       IN  /\ top.idx <= Len(top.list)
           /\ delivered' = [delivered EXCEPT ![top.list[top.idx]] = top.value]
           /\ CASE reaction.do = "nothing" ->
                    /\ stack' = advanced
                    /\ UNCHANGED <<state, listeners, subs>>
                [] reaction.do = "store" ->
                    /\ Len(stack) < MaxDepth
                    /\ state' = [state EXCEPT ![key] = reaction.value]
                    /\ stack' = Append(advanced, Frame(key, reaction.value))
                    /\ UNCHANGED <<listeners, subs>>
                [] reaction.do = "remove" ->
                    /\ Len(stack) < MaxDepth
                    /\ state' = [state EXCEPT ![key] = NoValue]
                    /\ stack' = Append(advanced, Frame(key, Undefined))
                    /\ UNCHANGED <<listeners, subs>>
                [] reaction.do = "subscribe" ->
                    /\ Len(listeners[key]) < MaxSubs
                    /\ listeners' = [listeners EXCEPT ![key] =
                                        Append(listeners[key], reaction.cb)]
                    /\ subs' = [subs EXCEPT ![key][reaction.cb] =
                                   subs[key][reaction.cb] + 1]
                    /\ stack' = advanced
                    /\ UNCHANGED state
                [] reaction.do = "unsubscribe" ->
                    /\ listeners' = [listeners EXCEPT ![key] =
                                        Filter(listeners[key], reaction.cb)]
                    /\ subs' = [subs EXCEPT ![key][reaction.cb] = 0]
                    /\ stack' = advanced
                    /\ UNCHANGED state
    /\ UNCHANGED <<keyOrder, calls, smOp, topOp, outsidePublish>>

\* forEach is through: publish returns, and with it the store or remove
\* that called it
Return ==
    /\ stack # <<>>
    /\ stack[Len(stack)].idx > Len(stack[Len(stack)].list)
    /\ stack' = SubSeq(stack, 1, Len(stack) - 1)
    /\ topOp' = IF Len(stack) = 1 THEN [topOp EXCEPT !.returned = TRUE] ELSE topOp
    /\ UNCHANGED <<state, listeners, keyOrder, calls, smOp, subs, delivered,
                   outsidePublish>>

(* ------------------------ FormUtils.serializeForm --------------------- *)
Arr(items) == [type |-> "array", items |-> items]

FieldNames == {"tag", "name"}
FieldValues == {Str(""), Str("a"), Str("b")}
\* the entries of new FormData(form), in document order
Forms == UNION {[1..n -> [key : FieldNames, value : FieldValues]] : n \in 0..MaxFields}

\* one iteration of the for loop over formData.entries()
AddEntry(jsonData, key, value) ==
    IF Truthy(jsonData[key])
    THEN IF jsonData[key].type = "array"
         THEN [jsonData EXCEPT ![key] = Arr(Append(jsonData[key].items, value))]
         ELSE [jsonData EXCEPT ![key] = Arr(<<jsonData[key], value>>)]
    ELSE [jsonData EXCEPT ![key] = value]

RECURSIVE SerializeFrom(_, _)
SerializeFrom(entries, jsonData) ==
    IF entries = <<>> THEN jsonData
    ELSE SerializeFrom(Tail(entries),
                       AddEntry(jsonData, Head(entries).key, Head(entries).value))

\* serializeForm(form); a key jsonData lacks reads as Undefined
serializeForm(entries) ==
    SerializeFrom(entries, [n \in FieldNames |-> Undefined])

SerializeFormCall(entries) ==
    /\ formIn = NoValue
    /\ formIn' = [entries |-> entries]
    /\ formOut' = serializeForm(entries)
    /\ UNCHANGED <<submitVars, landVars, outsideForms>>

(* ------------------------- FormUtils.attachSubmit --------------------- *)
\* what the submit callback does: resolves with a value, or throws / rejects
Returns(value) == [kind |-> "returns", value |-> value]
ResultRecord(success, message, error) ==
    Obj([success |-> Bool(success), message |-> message, error |-> error])
Outcomes ==
    {Returns(ResultRecord(TRUE, Undefined, Undefined)),
     Returns(ResultRecord(TRUE, Str("Patient saved"), Undefined)),
     Returns(ResultRecord(FALSE, Undefined, Undefined)),
     Returns(ResultRecord(FALSE, Undefined, Str("Invalid id"))),
     Returns(Undefined),
     [kind |-> "throws"]}

Note(type, message) == [type |-> type, message |-> message]

\* the path the try statement takes after the await
TryPath(outcome) ==
    IF outcome.kind = "throws" \/ ReadThrows(outcome.value) THEN "catch"
    ELSE IF Truthy(Field(outcome.value, "success")) THEN "success"
    ELSE "failure"

\* the notification shown on each path
SubmitNote(outcome) ==
    CASE TryPath(outcome) = "success" ->
            Note("success", OrElse(Field(outcome.value, "message"),
                                   Str("Operation completed successfully")))
      [] TryPath(outcome) = "failure" ->
            Note("error", OrElse(Field(outcome.value, "error"),
                                 Str("Operation failed")))
      [] OTHER -> Note("error", Str("An unexpected error occurred"))

\* the finally clause runs on every path
RestoresOnlyAfterTry(path) == path # "catch"
RestoresButton(path) == TRUE

\* attachSubmit(form, callback): the listener is added to the form
AttachSubmit(ajax, hasBtn) ==
    /\ bound = NoValue
    /\ bound' = [ajax |-> ajax, hasBtn |-> hasBtn]
    /\ UNCHANGED <<btnText, btnDisabled, formValues, spc, originalText, notes,
                   lastFinished, serVars, landVars, outsideForms>>

\* a submit event: the listener runs up to its await; without data-ajax it
\* calls the callback and is done
Submit(r) ==
    /\ bound # NoValue
    /\ spc[r] = "idle"
    /\ r > 1 => spc[r - 1] # "idle"
    /\ lastFinished' = 0
    /\ IF bound.ajax
       THEN /\ originalText' = [originalText EXCEPT ![r] =
                                  IF bound.hasBtn THEN btnText ELSE Null]
            /\ IF bound.hasBtn
               THEN btnText' = Str("Saving...") /\ btnDisabled' = TRUE
               ELSE UNCHANGED <<btnText, btnDisabled>>
            /\ spc' = [spc EXCEPT ![r] = "awaiting"]
       ELSE /\ spc' = [spc EXCEPT ![r] = "done"]
            /\ UNCHANGED <<btnText, btnDisabled, originalText>>
    /\ UNCHANGED <<bound, formValues, notes, serVars, landVars, outsideForms>>

\* the awaited callback settles: the rest of try, catch and finally
SubmitSettles(r, outcome) ==
    /\ spc[r] = "awaiting"
    /\ notes' = [notes EXCEPT ![r] = Append(notes[r], SubmitNote(outcome))]
    /\ formValues' = IF TryPath(outcome) = "success" THEN "reset" ELSE formValues
    /\ IF bound.hasBtn /\ RestoresButton(TryPath(outcome))
       THEN btnText' = originalText[r] /\ btnDisabled' = FALSE
       ELSE UNCHANGED <<btnText, btnDisabled>>
    /\ spc' = [spc EXCEPT ![r] = "done"]
    /\ lastFinished' = r
    /\ UNCHANGED <<bound, originalText, serVars, landVars, outsideForms>>

(* ------------------------------ LandingHeader ------------------------- *)
\* what the auth-action endpoint may answer with a 2xx status
HeaderResponses ==
    {Undefined, Null,
     Obj([redirect_url |-> Undefined]),
     Obj([redirect_url |-> Str("")]),
     Obj([redirect_url |-> Str("/dashboard")])}

FallbackPath(kind) == IF kind = "login" THEN "/auth/login" ELSE "/auth/register"

\* handleLoginSuccess / handleSignupSuccess
SuccessPath(kind, response) ==
    IF Truthy(response) /\ Truthy(Field(response, "redirect_url"))
    THEN Field(response, "redirect_url").str
    ELSE FallbackPath(kind)

\* decodeURIComponent throws a URIError on a '%' that does not start an
\* escape; no character of ValueChars is a hex digit, so every '%' does
decodeURIComponent(chars) ==
    [throws |-> \E i \in DOMAIN chars : chars[i] = "%", value |-> Text(chars)]

\* the loop of LandingHeader.getCookie over the pieces of document.cookie
RECURSIVE HeaderFindCookie(_, _)
HeaderFindCookie(cookies, nameEQ) ==
    IF cookies = <<>> THEN [throws |-> FALSE, value |-> Null]
    ELSE LET cookie == Trim(Head(cookies)) IN
         IF SubSeq(cookie, 1, Len(nameEQ)) = nameEQ
         THEN decodeURIComponent(SubSeq(cookie, Len(nameEQ) + 1, Len(cookie)))
         ELSE HeaderFindCookie(Tail(cookies), nameEQ)

HeaderGetCookie(name) ==
    IF CookieString(jar) # <<>>
    THEN HeaderFindCookie(Split(CookieString(jar), ";"), name \o <<"=">>)
    ELSE [throws |-> FALSE, value |-> Null]

\* the beforeSend hook installed by setupAjaxDefaults runs inside $.ajax for
\* the relative auth-action URL; an exception in it leaves $.ajax and the
\* click handler before any request is sent
BeforeSendThrows == HeaderGetCookie(CsrfKey).throws

Navigate(k, path, outcome) ==
    /\ navs' = [navs EXCEPT ![k] = Append(navs[k], [to |-> path, on |-> outcome])]
    /\ location' = path

\* handleLoginClick / handleSignupClick
Click(k, kind) ==
    /\ lpc[k] = "idle"
    /\ k > 1 => lpc[k - 1] # "idle"
    /\ lkind' = [lkind EXCEPT ![k] = kind]
    /\ lpc' = [lpc EXCEPT ![k] = IF BeforeSendThrows THEN "threw" ELSE "sent"]
    /\ UNCHANGED <<navs, location, outsideHeader>>

\* the .done callback
AjaxDone(k, response) ==
    /\ lpc[k] = "sent"
    /\ Navigate(k, SuccessPath(lkind[k], response), response)
    /\ lpc' = [lpc EXCEPT ![k] = "settled"]
    /\ UNCHANGED <<lkind, outsideHeader>>

\* the .fail callback
AjaxFail(k) ==
    /\ lpc[k] = "sent"
    /\ Navigate(k, FallbackPath(lkind[k]), [type |-> "fail"])
    /\ lpc' = [lpc EXCEPT ![k] = "settled"]
    /\ UNCHANGED <<lkind, outsideHeader>>

(* ------------------------- delete-button handler ---------------------- *)
\* button.dataset.url and button.dataset.target: undefined when the
\* attribute is missing, possibly empty
DeleteUrls == {Undefined, Str(""), Str("/patients/1")}
DeleteTargets == {Undefined, Str(""), Str("#row-1"), Str("#row-2"), Str("#missing")}

\* what ajaxHandler.delete(url) resolves to: request with the handler's own
\* retries (3) returns a success record or the record of handleError
DeleteResults ==
    {SuccessRecord(response) : response \in Payloads}
    \cup {handleError(error) : error \in AjaxErrors}

RemovesAlways(res) == TRUE
\* if (result.success)
RemovesOnResult(res) == res.success

\* DOMUtils.$(button.dataset.target): the elements target.remove() takes away
TargetElements(target) ==
    IF Truthy(target) /\ target.str \in dom THEN {target.str} ELSE {}

\* the click handler up to its return or its await
DeleteClick(d, url, target, accepted) ==
    /\ dpc[d] = "idle"
    /\ d > 1 => dpc[d - 1] # "idle"
    /\ IF ~Truthy(url)
       THEN /\ dIn' = [dIn EXCEPT ![d] =
                         [url |-> url, target |-> target, asked |-> FALSE,
                          accepted |-> FALSE]]
            /\ dNote' = [dNote EXCEPT ![d] =
                           <<Note("error", Str("Delete URL is not defined"))>>]
            /\ dpc' = [dpc EXCEPT ![d] = "done"]
            /\ UNCHANGED deleteCalls
       ELSE /\ dIn' = [dIn EXCEPT ![d] =
                         [url |-> url, target |-> target, asked |-> TRUE,
                          accepted |-> accepted]]
            /\ IF accepted
               THEN /\ deleteCalls' = [deleteCalls EXCEPT ![d] = deleteCalls[d] + 1]
                    /\ dpc' = [dpc EXCEPT ![d] = "awaiting"]
               ELSE /\ dpc' = [dpc EXCEPT ![d] = "done"]
                    /\ UNCHANGED deleteCalls
            /\ UNCHANGED dNote
    /\ UNCHANGED <<dRes, removed, dom, outsideDelete>>

\* await ajaxHandler.delete(url) resolves: the rest of the handler
DeleteReturns(d, res) ==
    /\ dpc[d] = "awaiting"
    /\ dRes' = [dRes EXCEPT ![d] = res]
    /\ IF RemovesOnResult(res)
       THEN /\ dNote' = [dNote EXCEPT ![d] =
                           <<Note("success",
                                  OrElse(IF "message" \in DOMAIN res THEN res.message
                                         ELSE Undefined,
                                         Str("Item deleted successfully")))>>]
            /\ removed' = [removed EXCEPT ![d] = TargetElements(dIn[d].target)]
            /\ dom' = dom \ TargetElements(dIn[d].target)
       ELSE /\ dNote' = [dNote EXCEPT ![d] =
                           <<Note("error",
                                  OrElse(IF "error" \in DOMAIN res THEN res.error
                                         ELSE Undefined,
                                         Str("Failed to delete item")))>>]
            /\ UNCHANGED <<removed, dom>>
    /\ dpc' = [dpc EXCEPT ![d] = "done"]
    /\ UNCHANGED <<dIn, deleteCalls, outsideDelete>>

(* --------------------------- specifications --------------------------- *)
\* overlapping requests
Next == RequestStep
Spec == Init /\ [][Next]_vars

\* overlapping requests and direct calls on the page overlay
NextOverlay == RequestStep \/ PageShow \/ PageHide
SpecOverlay == Init /\ [][NextOverlay]_vars

\* LoadingManager calls on the page and on elements
NextLoading ==
    \/ \E t \in Targets : ShowLoadingCall(t)
    \/ \E t \in Targets : HideLoadingCall(t)
SpecLoading == Init /\ [][NextLoading]_vars

\* handleError applied to every error of ErrorInputs
NextError == \E error \in ErrorInputs : HandleErrorCall(error)
SpecError == Init /\ [][NextError]_vars

\* StateManager calls in any order
NextState ==
    \/ \E k \in Keys, v \in Values : store(k, v)
    \/ \E k \in Keys : remove(k)
    \/ clear
    \/ \E k \in Keys, cb \in Callbacks : subscribe(k, cb)
    \/ \E k \in Keys, cb \in Callbacks : unsubscribe(k, cb)
SpecState == Init /\ [][NextState]_vars

\* serializeForm applied to every form of Forms
NextSerialize == \E entries \in Forms : SerializeFormCall(entries)
SpecSerialize == Init /\ [][NextSerialize]_vars

\* submissions of one bound form, overlapping or not
NextSubmit ==
    \/ \E ajax \in BOOLEAN, hasBtn \in BOOLEAN : AttachSubmit(ajax, hasBtn)
    \/ \E r \in Runs : Submit(r)
    \/ \E r \in Runs, outcome \in Outcomes : SubmitSettles(r, outcome)
SpecSubmit == Init /\ [][NextSubmit]_vars

\* CookieManager calls in any order
NextCookies ==
    \/ \E name \in CookieNames, value \in CookieValues, days \in {0, 7, -1} :
          setCookie(name, value, days)
    \/ \E name \in CookieNames : deleteCookie(name)
SpecCookies == Init /\ [][NextCookies]_vars

\* clicks on the header buttons, with the csrftoken cookie changing between
NextHeader ==
    \/ \E k \in Clicks, kind \in {"login", "signup"} : Click(k, kind)
    \/ \E k \in Clicks, response \in HeaderResponses : AjaxDone(k, response)
    \/ \E k \in Clicks : AjaxFail(k)
    \/ \E value \in CookieValues : setCookie(CsrfKey, value, 0)
SpecHeader == Init /\ [][NextHeader]_vars

\* one request call given any options, with the cookies changing meanwhile
NextCall ==
    \/ \E r \in RetryOptions, d \in {DefaultRetryDelay, 250}, h \in HeaderOptions :
          Request(1, r, d, h)
    \/ \E response \in {Undefined} : AjaxResolve(1, response)
    \/ \E error \in {NetworkError} : AjaxReject(1, error)
    \/ RetryTimer(1)
    \/ \E name \in CookieNames, value \in {v \in CookieValues : \A i \in DOMAIN v : v[i] = "t"} :
          setCookie(name, value, 0)
    \/ \E name \in CookieNames : deleteCookie(name)
SpecCall == Init /\ [][NextCall]_vars

\* subscriptions made by page code, then store and remove calls whose
\* callbacks call back into the StateManager
WatchedKeys == {"user"}
NextReentrant ==
    \/ \E k \in WatchedKeys, cb \in Callbacks :
          topOp.op = "none" /\ subscribe(k, cb)
    \/ \E k \in WatchedKeys, v \in Values : TopStore(k, v)
    \/ \E k \in WatchedKeys : TopRemove(k)
    \/ \E reaction \in Reactions : Deliver(reaction)
    \/ Return
SpecReentrant == Init /\ [][NextReentrant]_vars

\* clicks on delete buttons, their requests returning in any order
NextDelete ==
    \/ \E d \in Deletes, url \in DeleteUrls, target \in DeleteTargets,
          accepted \in BOOLEAN : DeleteClick(d, url, target, accepted)
    \/ \E d \in Deletes, res \in DeleteResults : DeleteReturns(d, res)
SpecDelete == Init /\ [][NextDelete]_vars

(* ------------------------------ properties ---------------------------- *)
Done(c) == pc[c] = "done"
Succeeded(c) == Done(c) /\ "ok" \in DOMAIN settled[c] /\ settled[c].ok
Failed(c) == Done(c) /\ "ok" \in DOMAIN settled[c] /\ ~settled[c].ok
IsFailureRecord(r) ==
    /\ DOMAIN r = {"success", "error", "status"}
    /\ r.success = FALSE
IsSuccessRecord(r) ==
    /\ DOMAIN r = {"success", "data"}
    /\ r.success = TRUE

\* C1: a request with retries >= 0 that returned after a failed attempt issued
\* exactly retries + 1 attempts and returned a failure record, whatever the
\* status of the failures.
C1_RetriedExactly ==
    \A c \in Calls :
        (Failed(c) /\ retries[c] >= 0) =>
            /\ issued[c] = retries[c] + 1
            /\ IsFailureRecord(result[c])

C1_Witness ==
    \E c \in Calls :
        /\ Failed(c)
        /\ retries[c] = MaxRetries
        /\ issued[c] = MaxRetries + 1
        /\ settled[c].value.status = Num(404)
        /\ IsFailureRecord(result[c])

\* C2: a request whose attempt k <= retries + 1 is the first to succeed returns
\* {success: true, data: payload of attempt k} after exactly k attempts; a
\* request returns a failure only after retries + 1 failed attempts.
C2_FirstSuccessReturned ==
    \A c \in Calls :
        /\ Succeeded(c) =>
              /\ result[c] = [success |-> TRUE, data |-> settled[c].value]
              /\ issued[c] = attempt[c] + 1
              /\ issued[c] <= retries[c] + 1
        /\ (Done(c) /\ retries[c] >= 0 /\ attempt[c] <= retries[c]) =>
              IsSuccessRecord(result[c])

C2_Witness ==
    \E c \in Calls :
        /\ Succeeded(c)
        /\ MaxRetries >= 1
        /\ retries[c] = MaxRetries
        /\ issued[c] = MaxRetries + 1
        /\ settled[c].value # Undefined
        /\ result[c] = [success |-> TRUE, data |-> settled[c].value]

\* C3: every returned request resolved to a tagged record, {success: true,
\* data} or {success: false, error, status}, for any retries option.
C3_AlwaysTagged ==
    \A c \in Calls :
        Done(c) => (IsSuccessRecord(result[c]) \/ IsFailureRecord(result[c]))

FourStatuses == {Num(401), Num(403), Num(404), Num(500)}
BodyUnparseable(error) ==
    /\ ~Truthy(error.responseJSON)
    /\ (Truthy(error.responseText) => ~JSONparse(error.responseText.str).ok)

\* C4: for status 401, 403, 404 or 500 with an absent or unparseable body the
\* failure record carries the fixed message of that status and the status.
C4_FixedMessages ==
    (errIn # NoValue /\ errIn.status \in FourStatuses /\ BodyUnparseable(errIn)) =>
        /\ errOut.status = errIn.status
        /\ errIn.status = Num(401) =>
              errOut.error = Str("Unauthorized access. Please log in.")
        /\ errIn.status = Num(403) =>
              errOut.error =
                Str("Access forbidden. You do not have permission to perform this action.")
        /\ errIn.status = Num(404) => errOut.error = Str("Resource not found.")
        /\ errIn.status = Num(500) =>
              errOut.error = Str("Internal server error. Please try again later.")

C4_Witness ==
    /\ errIn # NoValue
    /\ errIn.status = Num(404)
    /\ errIn.responseText = Str(NotJSON)
    /\ errIn.responseJSON = Undefined
    /\ errOut.error = Str("Resource not found.")
    /\ errOut.status = Num(404)

\* the decoded body of an error, if it has one
ErrorBody(error) ==
    IF Truthy(error.responseJSON) THEN error.responseJSON
    ELSE IF Truthy(error.responseText) /\ JSONparse(error.responseText.str).ok
    THEN JSONparse(error.responseText.str).value
    ELSE Undefined

ChainMessage(error) ==
    LET body == ErrorBody(error) IN
    IF Truthy(Field(body, "detail")) THEN Field(body, "detail")
    ELSE IF Truthy(Field(body, "error")) THEN Field(body, "error")
    ELSE IF Truthy(error.statusText) THEN error.statusText
    ELSE Str("An unexpected error occurred")

\* C5: for a status other than 401, 403, 404 and 500 the message is the
\* body's detail, else the body's error, else the status text, else the
\* generic message, for JSON bodies and for bodies that are not JSON alike.
C5_SingleFallbackChain ==
    (errIn # NoValue /\ errIn.status \notin FourStatuses) =>
        errOut.error = ChainMessage(errIn)

\* C6: while a request is in flight or waiting for its retry timer the page
\* overlay is present, also when requests overlap.
C6_OverlayWhileInFlight ==
    \A c \in Calls : pc[c] \in {"inflight", "waiting"} => overlay >= 1

Cleared(t) ==
    IF t = "page" THEN overlay = 0
    ELSE ~elem[t].loading /\ ~elem[t].disabled

\* C7: one hideLoading(target) after n >= 1 showLoading(target) calls clears
\* the indicator: no overlay for the page, no class 'loading' and
\* disabled = false for an element.
C7_SingleHideClears ==
    \A t \in Targets : (lastOp[t] = "hide" /\ shows[t] >= 1) => Cleared(t)

C7_Witness ==
    /\ MaxShows >= 2
    /\ \A t \in Targets :
          lastOp[t] = "hide" /\ shows[t] = MaxShows /\ Cleared(t)

\* C8: the document never holds more than one full-page loading overlay.
C8_AtMostOneOverlay == overlay <= 1

C8_Witness ==
    /\ overlay = 1
    /\ \A c \in Calls : pc[c] \in {"inflight", "waiting"}

\* number of invocations of callback cb with argument v in the last call
Invocations(cb, v) ==
    Cardinality({i \in DOMAIN calls : calls[i] = [cb |-> cb, arg |-> v]})
InvocationsOf(cb) == Cardinality({i \in DOMAIN calls : calls[i].cb = cb})

\* C9 as stated: store(key, v) invokes a callback subscribed to key and not
\* unsubscribed since exactly once, with v, and any other callback not at all.
C9_ExactlyOnce ==
    smOp.op = "store" =>
        \A cb \in Callbacks :
            /\ subs[smOp.key][cb] > 0 =>
                  Invocations(cb, smOp.value) = 1 /\ InvocationsOf(cb) = 1
            /\ subs[smOp.key][cb] = 0 => InvocationsOf(cb) = 0

\* C9 amended: store(key, v) invokes cb with v once for each subscribe(key, cb)
\* made since the last unsubscribe(key, cb): once after a single subscribe,
\* not at all after unsubscribe.
C9_OncePerSubscription ==
    smOp.op = "store" =>
        \A cb \in Callbacks :
            /\ Invocations(cb, smOp.value) = subs[smOp.key][cb]
            /\ InvocationsOf(cb) = subs[smOp.key][cb]

C9_Witness ==
    /\ smOp.op = "store"
    /\ subs[smOp.key]["cb1"] = 1
    /\ subs[smOp.key]["cb2"] = 0
    /\ listeners[smOp.key] = <<"cb1">>
    /\ \E k \in Keys : k # smOp.key /\ subs[k]["cb2"] > 0
    /\ calls = <<[cb |-> "cb1", arg |-> smOp.value]>>

RECURSIVE SumSubs(_, _)
SumSubs(keys, cb) ==
    IF keys = {} THEN 0
    ELSE LET k == CHOOSE x \in keys : TRUE IN
         subs[k][cb] + SumSubs(keys \ {k}, cb)

\* C10: clear() leaves get(key) undefined for every key and invokes with
\* undefined every callback subscribed to a key, whether or not the key held
\* a value.
C10_ClearNotifiesAll ==
    smOp.op = "clear" =>
        /\ \A k \in Keys : get(k) = Undefined
        /\ \A cb \in Callbacks :
              /\ Invocations(cb, Undefined) = SumSubs(Keys, cb)
              /\ InvocationsOf(cb) = SumSubs(Keys, cb)

C10_Witness ==
    /\ smOp.op = "clear"
    /\ \E k1, k2 \in Keys :
          /\ k1 \in smOp.held
          /\ k2 \notin smOp.held
          /\ subs[k1]["cb1"] > 0
          /\ subs[k2]["cb2"] > 0
    /\ Invocations("cb1", Undefined) >= 1
    /\ Invocations("cb2", Undefined) >= 1

\* C11: store(k, v) and remove(k) notify exactly the callbacks subscribed to
\* k, with v and with undefined (also when k held no value), and no callback
\* subscribed only to another key.
C11_NotifiesSubscribersOfKey ==
    smOp.op \in {"store", "remove"} =>
        LET arg == IF smOp.op = "store" THEN smOp.value ELSE Undefined IN
        /\ \A cb \in Callbacks : InvocationsOf(cb) > 0 <=> subs[smOp.key][cb] > 0
        /\ \A i \in DOMAIN calls : calls[i].arg = arg

C11_Witness ==
    /\ smOp.op = "remove"
    /\ ~smOp.held
    /\ subs[smOp.key]["cb1"] > 0
    /\ subs[smOp.key]["cb2"] = 0
    /\ \E k \in Keys : k # smOp.key /\ subs[k]["cb2"] > 0
    /\ calls = <<[cb |-> "cb1", arg |-> Undefined]>>

\* the values of the fields called name, in document order
ValuesOf(entries, name) ==
    LET sel == SelectSeq(entries, LAMBDA e : e.key = name) IN
    [i \in DOMAIN sel |-> sel[i].value]

\* C12: serializeForm maps a name that occurs n >= 2 times to the array of
\* its n values in document order, empty strings included, and a name that
\* occurs once to its value.
C12_RepeatedNamesToArrays ==
    formIn # NoValue =>
        \A name \in FieldNames :
            LET vals == ValuesOf(formIn.entries, name) IN
            /\ Len(vals) >= 2 => formOut[name] = Arr(vals)
            /\ Len(vals) = 1 => formOut[name] = vals[1]

\* C13: when a submission of a data-ajax form has just finished, in any
\* outcome, its handler has shown exactly one success or error notification
\* and the submit button is enabled with the text it had when the submission
\* started.
C13_ButtonRestoredOneNotification ==
    (lastFinished # 0 /\ bound.ajax) =>
        /\ Len(notes[lastFinished]) = 1
        /\ notes[lastFinished][1].type \in {"success", "error"}
        /\ bound.hasBtn =>
              /\ ~btnDisabled
              /\ btnText = originalText[lastFinished]
              /\ (\A r \in Runs : r # lastFinished => spc[r] = "idle")
                    => btnText = Str("Save")

C13_Witness ==
    /\ lastFinished # 0
    /\ bound.ajax /\ bound.hasBtn
    /\ notes[lastFinished] =
          <<Note("error", Str("An unexpected error occurred"))>>
    /\ \A r \in Runs : r # lastFinished => spc[r] = "idle"
    /\ btnText = Str("Save")
    /\ ~btnDisabled

\* C20: with overlapping submissions of one data-ajax form the submit button
\* is never enabled while a submission is in progress, and once all have
\* finished it is enabled and shows its original text.
C20_OverlappingSubmitsRestore ==
    (bound # NoValue /\ bound.ajax /\ bound.hasBtn) =>
        /\ (\E r \in Runs : spc[r] = "awaiting") => btnDisabled
        /\ (\A r \in Runs : spc[r] = "done") =>
              (btnText = Str("Save") /\ ~btnDisabled)

\* C14: after setCookie(name, value, days) with days unset or positive,
\* getCookie(name) returns the value that was set, whatever other cookies are
\* stored; after deleteCookie(name), getCookie(name) is null and
\* checkCookie(name) is false.
C14_CookieRoundTrip ==
    /\ (cookieOp.op = "set" /\ cookieOp.days >= 0) =>
          getCookie(cookieOp.name) = Text(cookieOp.value)
    /\ cookieOp.op = "delete" =>
          (getCookie(cookieOp.name) = Null /\ ~checkCookie(cookieOp.name))

\* C15: every click on the login (signup) button that is no longer waiting
\* for its answer was followed by exactly one navigation: to the
\* redirect_url of a successful response that carries one, otherwise to
\* '/auth/login' ('/auth/register'); no click is left without a redirect.
C15_AlwaysOneNavigation ==
    \A k \in Clicks :
        lpc[k] \notin {"idle", "sent"} =>
            /\ Len(navs[k]) = 1
            /\ navs[k][1].to =
                  IF /\ navs[k][1].on \in HeaderResponses
                     /\ navs[k][1].on.type = "object"
                     /\ Truthy(navs[k][1].on.fields.redirect_url)
                  THEN navs[k][1].on.fields.redirect_url.str
                  ELSE FallbackPath(lkind[k])

\* the values the cookie store held under name when call c started
ValuesAt(c, name) ==
    {cookiesAt[c][i].value : i \in {j \in DOMAIN cookiesAt[c] :
                                        cookiesAt[c][j].name = name}}
HeaderOf(headers, name) ==
    IF \E p \in headers : p.name = name
    THEN (CHOOSE p \in headers : p.name = name).value
    ELSE Undefined
CookieHeaderNames == {"Authorization", "X-CSRFToken"}
\* the attempts of call c carry the defaults with the overrides on top
CarriesMergedOptions(c, headers) ==
    /\ \A p \in Merge(ConfigHeaders, headersOpt[c]) :
          p.name \notin CookieHeaderNames => p \in headers
    /\ \A p \in headers :
          \E q \in Merge(ConfigHeaders, headersOpt[c]) \cup
                   {[name |-> n] : n \in CookieHeaderNames} : q.name = p.name

\* C16 as stated: every attempt carries the defaults with the overrides on
\* top, Authorization = 'Bearer <token>' iff the token cookie was present when
\* the call started, X-CSRFToken = the csrftoken cookie iff that cookie was
\* present; all attempts of a call carry the same headers.
C16_HeadersIffPresent ==
    \A c \in Calls :
        /\ Cardinality(sent[c]) <= 1
        /\ \A headers \in sent[c] :
              /\ CarriesMergedOptions(c, headers)
              /\ ValuesAt(c, AuthTokenKey) # {} <=>
                    HeaderOf(headers, "Authorization") \in
                        {Text(<<"Bearer ">> \o v) : v \in ValuesAt(c, AuthTokenKey)}
              /\ ValuesAt(c, CsrfKey) # {} <=>
                    HeaderOf(headers, "X-CSRFToken") \in
                        {Text(v) : v \in ValuesAt(c, CsrfKey)}

\* C16 amended: every attempt carries the defaults with the overrides on
\* top; Authorization is 'Bearer <token>' iff the token cookie was present
\* with a non-empty value when the call started, X-CSRFToken is the csrftoken
\* cookie iff that cookie was present with a non-empty value; otherwise the
\* header is the caller's override, or absent; all attempts of a call carry
\* the same headers.
C16_HeadersIffNonEmpty ==
    \A c \in Calls :
        /\ Cardinality(sent[c]) <= 1
        /\ \A headers \in sent[c] :
              /\ CarriesMergedOptions(c, headers)
              /\ HeaderOf(headers, "Authorization") \in
                    IF ValuesAt(c, AuthTokenKey) \ {<<>>} # {}
                    THEN {Text(<<"Bearer ">> \o v) :
                             v \in ValuesAt(c, AuthTokenKey) \ {<<>>}}
                    ELSE {HeaderOf(headersOpt[c], "Authorization")}
              /\ HeaderOf(headers, "X-CSRFToken") \in
                    IF ValuesAt(c, CsrfKey) \ {<<>>} # {}
                    THEN {Text(v) : v \in ValuesAt(c, CsrfKey) \ {<<>>}}
                    ELSE {HeaderOf(headersOpt[c], "X-CSRFToken")}

C16_Witness ==
    \E c \in Calls :
        /\ issued[c] >= 2
        /\ headersOpt[c] # {}
        /\ ValuesAt(c, AuthTokenKey) = {<<"t">>}
        /\ ValuesAt(c, CsrfKey) = {<<>>}
        /\ HeaderOf(hdrs[c], "Authorization") = Text(<<"Bearer ", "t">>)
        /\ HeaderOf(hdrs[c], "X-CSRFToken") = Undefined
        /\ getCookie(AuthTokenKey) = Null
        /\ sent[c] = {hdrs[c]}

\* C17: within one request call every wait equals the call's retryDelay, one
\* wait lies between any two consecutive attempts, and none follows a
\* successful attempt or the final failed attempt.
C17_FixedDelayBetweenAttempts ==
    \A c \in Calls :
        /\ \A i \in DOMAIN waits[c] : waits[c][i] = delay[c]
        /\ issued[c] = 0 => waits[c] = <<>>
        /\ (issued[c] >= 1 /\ pc[c] \in {"inflight", "done"}) =>
              Len(waits[c]) = issued[c] - 1
        /\ pc[c] = "waiting" => Len(waits[c]) = issued[c]

C17_Witness ==
    \E c \in Calls :
        /\ Failed(c)
        /\ delay[c] = 250
        /\ issued[c] = MaxRetries + 1
        /\ waits[c] = [i \in 1..MaxRetries |-> 250]

\* C18: whenever every started request call has returned, the page overlay
\* is absent.
C18_NoOverlayAfterReturn ==
    ((\E c \in Calls : Done(c)) /\ (\A c \in Calls : pc[c] \in {"idle", "done"}))
        => overlay = 0

\* C19: after a store(key, v) or remove(key) call made by page code has
\* returned, every callback subscribed to key that was notified during the
\* call was last given get(key), also when callbacks called store, remove,
\* subscribe or unsubscribe on key while being notified.
C19_LastDeliveredIsCurrent ==
    (topOp.op \in {"store", "remove"} /\ topOp.returned) =>
        \A cb \in Callbacks :
            (/\ \E i \in DOMAIN listeners[topOp.key] : listeners[topOp.key][i] = cb
             /\ delivered[cb] # NoValue)
                => delivered[cb] = get(topOp.key)

\* C21: a click on a delete button issues a DELETE request only if data-url
\* is defined and the confirmation was accepted; it removes its data-target
\* element only after that request returned a success record; with a missing
\* URL, a declined confirmation or a failure record it removes nothing, and
\* nothing leaves the page but what such a click removed.
C21_DeleteOnlyConfirmedRemoveOnlyOnSuccess ==
    /\ \A d \in Deletes :
          /\ deleteCalls[d] >= 1 =>
                (dIn[d].url # Undefined /\ dIn[d].asked /\ dIn[d].accepted)
          /\ deleteCalls[d] <= 1
          /\ removed[d] # {} =>
                /\ dpc[d] = "done"
                /\ deleteCalls[d] = 1
                /\ IsSuccessRecord(dRes[d])
                /\ removed[d] = {dIn[d].target.str}
          /\ (dpc[d] = "done" /\ (~Truthy(dIn[d].url) \/ ~dIn[d].accepted
                                   \/ IsFailureRecord(dRes[d])))
                => removed[d] = {}
    /\ InitialDom \ dom = UNION {removed[d] : d \in Deletes}

C21_Witness ==
    \E d, e \in Deletes :
        /\ dpc[d] = "done" /\ dpc[e] = "done"
        /\ IsSuccessRecord(dRes[d])
        /\ removed[d] = {"#row-1"}
        /\ IsFailureRecord(dRes[e])
        /\ dIn[e].target = Str("#row-2")
        /\ dom = {"#row-2"}

====
